---- MODULE Spec2Model ----
(***************************************************************************)
(* Model of enrollment_service/instructor_router.py: the administrative    *)
(* drop handler drop_class over the relational (sqlite3) store, and the    *)
(* three read handlers get_current_enrollment, get_waitlist, get_droplist  *)
(* over the Roster Store (wide-column) and the Waitlist Store (sorted set).*)
(***************************************************************************)
EXTENDS Integers, Sequences, FiniteSets, TLC

VARIABLES
    enrollment,   \* committed rows of table enrollment: set of <<class_id, student_id>>
    droplist,     \* committed rows of table droplist, in insertion order
    waitlist,     \* per class_id, the waitlisted students, lowest rank first
    autoEnroll,   \* the auto-enroll policy flag read by is_auto_enroll_enabled
    now,          \* the store's clock, read by datetime('now')
    writer,       \* the request whose connection holds the store's write lock (0: none)
    pc,           \* per request, the position of drop_class
    call,         \* per request, the arguments, rowcount, exception and response of the call
    txn,          \* per request, the uncommitted effects of its connection
    rosterClass,      \* Roster Store, table class: records [term, class, instructor_id]
    rosterEnrollment, \* Roster Store, table enrollment: records [term, class, student_cwid]
    rosterDroplist,   \* Roster Store, table droplist: records [term, class, student_cwid]
    waitlisted,       \* the students who joined a waitlist: records [term, class, student_cwid]
    redis,            \* Waitlist Store: per set name, the members, lowest rank first
    rd                \* the last read request and its response

vars == <<enrollment, droplist, waitlist, autoEnroll, now, writer, pc, call, txn,
         rosterClass, rosterEnrollment, rosterDroplist, waitlisted, redis, rd>>

readVars == <<rosterClass, rosterEnrollment, rosterDroplist, waitlisted, redis, rd>>

dropVars == <<enrollment, droplist, waitlist, autoEnroll, now, writer, pc, call, txn>>

----------------------------------------------------------------------------
(* Bounds *)

\* the number of drop_class requests in flight
NumRequests == 2

Requests == 1 .. NumRequests

Students == {1, 2, 3}

\* rows of table "class": class c is taught by instructor ClassInstructor[c]
ClassIds == {1, 2}

Instructors == {1, 2}

ClassInstructor == [c \in ClassIds |-> c]

\* class ids a caller may put in the path; the last one names no class
PathClassIds == ClassIds \cup {3}

ErrorKinds == {"IntegrityError", "OperationalError"}

----------------------------------------------------------------------------
(* Helpers *)

RECURSIVE SeqToSet(_)
SeqToSet(q) == IF q = <<>> THEN {} ELSE {Head(q)} \cup SeqToSet(Tail(q))

IsInjective(q) == \A a, b \in 1 .. Len(q) : q[a] = q[b] => a = b

SeqsUpTo(S, n) == UNION {[1 .. k -> S] : k \in 0 .. n}

NoArgs == [class_id |-> 0, student_id |-> 0, instructor_id |-> 0]

NoResponse == [status |-> 0, detail |-> <<>>]

NoCall == [args |-> NoArgs, rowcount |-> 0, raised |-> <<>>, trigger |-> <<>>,
           committed |-> FALSE, after |-> {}, response |-> NoResponse]

NoTxn == [deleted |-> {}, inserted |-> <<>>]

NoRead == [endpoint |-> "none"]

----------------------------------------------------------------------------
(* drop_class *)

\* the DELETE without the ownership subquery
DeleteWhereAnyInstructor(row, class_id, student_id, instructor_id) ==
    /\ row[1] = class_id
    /\ row[2] = student_id

\* WHERE class_id = ? AND student_id = ? AND class_id IN
\*   (SELECT id FROM "class" WHERE id = ? AND instructor_id = ?)
DeleteWhere(row, class_id, student_id, instructor_id) ==
    /\ row[1] = class_id
    /\ row[2] = student_id
    /\ row[1] \in {id \in ClassIds : id = class_id /\ ClassInstructor[id] = instructor_id}

DeletedRows(class_id, student_id, instructor_id) ==
    {row \in enrollment : DeleteWhere(row, class_id, student_id, instructor_id)}

\* a store that lets two connections write at once
CanWriteUnserialised(r) == TRUE

\* the relational store admits one writing connection at a time
CanWrite(r) == writer \in {0, r}

\* HTTPException(status_code=404, detail="Record Not Found")
NotFound == [status |-> 404, detail |-> <<"Record Not Found">>]

\* return {"detail": "Item deleted successfully"}
Success == [status |-> 200, detail |-> <<"Item deleted successfully">>]

\* except sqlite3.OperationalError as e
CaughtOperational(kind) == kind = "OperationalError"

\* except sqlite3.IntegrityError as e
Caught(kind) == kind = "IntegrityError"

\* the response to an exception of the datastore layer raised inside the try
ErrorResponse(kind) ==
    IF Caught(kind)
    THEN [status |-> 409, detail |-> <<kind, "msg">>]
    ELSE [status |-> 500, detail |-> <<"Internal Server Error">>]

\* the INSERT with administrative = 0
DroplistRowVoluntary(class_id, student_id) ==
    [class_id |-> class_id, student_id |-> student_id,
     drop_date |-> now, administrative |-> FALSE]

\* INSERT INTO droplist (...) VALUES (?, ?, datetime('now'), 1)
DroplistRow(class_id, student_id) ==
    [class_id |-> class_id, student_id |-> student_id,
     drop_date |-> now, administrative |-> TRUE]

\* the connection of a request that ends without commit is closed: its
\* uncommitted effects are discarded and its lock released
Teardown(r) ==
    /\ txn' = [txn EXCEPT ![r] = NoTxn]
    /\ writer' = IF writer = r THEN 0 ELSE writer

Finished200 == {q \in Requests : pc[q] = "done" /\ call[q].response.status = 200}

\* the conditional DELETE and the rowcount test
Delete(r, class_id, student_id, instructor_id) ==
    /\ pc[r] = "idle"
    /\ CanWrite(r)
    /\ LET rows == DeletedRows(class_id, student_id, instructor_id)
           args == [class_id |-> class_id, student_id |-> student_id,
                    instructor_id |-> instructor_id]
       IN IF Cardinality(rows) = 0
          THEN /\ call' = [call EXCEPT ![r].args = args, ![r].rowcount = 0,
                                       ![r].after = Finished200,
                                       ![r].response = NotFound]
               /\ pc' = [pc EXCEPT ![r] = "done"]
               /\ Teardown(r)
          ELSE /\ call' = [call EXCEPT ![r].args = args,
                                       ![r].after = Finished200,
                                       ![r].rowcount = Cardinality(rows)]
               /\ pc' = [pc EXCEPT ![r] = "deleted"]
               /\ txn' = [txn EXCEPT ![r].deleted = rows]
               /\ writer' = r
    /\ UNCHANGED <<enrollment, droplist, waitlist, autoEnroll, now, readVars>>

\* the INSERT into droplist
Insert(r) ==
    /\ pc[r] = "deleted"
    /\ txn' = [txn EXCEPT ![r].inserted =
                  Append(@, DroplistRow(call[r].args.class_id, call[r].args.student_id))]
    /\ pc' = [pc EXCEPT ![r] = "inserted"]
    /\ now' = now + 1
    /\ UNCHANGED <<enrollment, droplist, waitlist, autoEnroll, writer, call, readVars>>

\* a commit that keeps the enrollment row
CommitDroplistOnly(r) ==
    /\ pc[r] = "inserted"
    /\ droplist' = droplist \o txn[r].inserted
    /\ writer' = 0
    /\ pc' = [pc EXCEPT ![r] = "committed"]
    /\ call' = [call EXCEPT ![r].committed = TRUE]
    /\ UNCHANGED <<enrollment, waitlist, autoEnroll, now, txn, readVars>>

\* db.commit()
Commit(r) ==
    /\ pc[r] = "inserted"
    /\ enrollment' = enrollment \ txn[r].deleted
    /\ droplist' = droplist \o txn[r].inserted
    /\ writer' = 0
    /\ pc' = [pc EXCEPT ![r] = "committed"]
    /\ call' = [call EXCEPT ![r].committed = TRUE]
    /\ UNCHANGED <<waitlist, autoEnroll, now, txn, readVars>>

\* is_auto_enroll_enabled(db)
is_auto_enroll_enabled == autoEnroll

\* enroll_students_from_waitlist(db, class_ids), one class: the lowest-ranked
\* waitlisted student of the class, if any, is removed from the waitlist and
\* enrolled
PromoteOne(st, class_id) ==
    IF class_id \notin DOMAIN st.waitlist \/ st.waitlist[class_id] = <<>>
    THEN st
    ELSE [enrollment |-> st.enrollment \cup {<<class_id, Head(st.waitlist[class_id])>>},
          waitlist |-> [st.waitlist EXCEPT ![class_id] = Tail(@)]]

RECURSIVE enroll_students_from_waitlist(_, _)
enroll_students_from_waitlist(st, class_ids) ==
    IF class_ids = <<>>
    THEN st
    ELSE enroll_students_from_waitlist(PromoteOne(st, Head(class_ids)), Tail(class_ids))

\* the trigger called for every class
TriggerEveryClass(class_id) == <<1, 2>>

\* the argument drop_class passes to the trigger
TriggerClasses(class_id) == <<class_id>>

\* the post-commit step: the policy flag, the trigger, and the 200 answer
Trigger(r) ==
    /\ pc[r] = "committed"
    /\ IF is_auto_enroll_enabled
       THEN LET class_ids == TriggerClasses(call[r].args.class_id)
                st == enroll_students_from_waitlist(
                         [enrollment |-> enrollment, waitlist |-> waitlist], class_ids)
            IN /\ st.enrollment # enrollment => CanWrite(r)
               /\ enrollment' = st.enrollment
               /\ waitlist' = st.waitlist
               /\ call' = [call EXCEPT ![r].trigger = class_ids, ![r].response = Success]
       ELSE /\ UNCHANGED <<enrollment, waitlist>>
            /\ call' = [call EXCEPT ![r].response = Success]
    /\ pc' = [pc EXCEPT ![r] = "done"]
    /\ UNCHANGED <<droplist, autoEnroll, now, writer, txn, readVars>>

----------------------------------------------------------------------------
(* Exceptions of the datastore layer *)

\* the DELETE raises, whatever its arguments
DeleteRaises(r, kind) ==
    /\ pc[r] = "idle"
    /\ call' = [call EXCEPT ![r].after = Finished200,
                            ![r].raised = <<"delete", kind>>,
                            ![r].response = ErrorResponse(kind)]
    /\ pc' = [pc EXCEPT ![r] = "done"]
    /\ Teardown(r)
    /\ UNCHANGED <<enrollment, droplist, waitlist, autoEnroll, now, readVars>>

\* the INSERT raises
InsertRaises(r, kind) ==
    /\ pc[r] = "deleted"
    /\ call' = [call EXCEPT ![r].raised = <<"insert", kind>>,
                            ![r].response = ErrorResponse(kind)]
    /\ pc' = [pc EXCEPT ![r] = "done"]
    /\ Teardown(r)
    /\ UNCHANGED <<enrollment, droplist, waitlist, autoEnroll, now, readVars>>

\* db.commit() raises
CommitRaises(r, kind) ==
    /\ pc[r] = "inserted"
    /\ call' = [call EXCEPT ![r].raised = <<"commit", kind>>,
                            ![r].response = ErrorResponse(kind)]
    /\ pc' = [pc EXCEPT ![r] = "done"]
    /\ Teardown(r)
    /\ UNCHANGED <<enrollment, droplist, waitlist, autoEnroll, now, readVars>>

\* a trigger failure that undoes the drop
TriggerRaisesRollsBack(r, kind) ==
    /\ pc[r] = "committed"
    /\ enrollment' = enrollment \cup txn[r].deleted
    /\ droplist' = SelectSeq(droplist, LAMBDA row : row \notin SeqToSet(txn[r].inserted))
    /\ call' = [call EXCEPT ![r].raised = <<"trigger", kind>>,
                            ![r].response = ErrorResponse(kind)]
    /\ pc' = [pc EXCEPT ![r] = "done"]
    /\ UNCHANGED <<waitlist, autoEnroll, now, writer, txn, readVars>>

\* is_auto_enroll_enabled or enroll_students_from_waitlist raises; an
\* IntegrityError can only come from the insert of a promoted student
TriggerRaises(r, kind) ==
    /\ pc[r] = "committed"
    /\ kind = "IntegrityError"
          => (is_auto_enroll_enabled /\ waitlist[call[r].args.class_id] # <<>>)
    /\ call' = [call EXCEPT ![r].raised = <<"trigger", kind>>,
                            ![r].trigger = IF is_auto_enroll_enabled
                                           THEN TriggerClasses(call[r].args.class_id)
                                           ELSE <<>>,
                            ![r].response = ErrorResponse(kind)]
    /\ pc' = [pc EXCEPT ![r] = "done"]
    /\ UNCHANGED <<enrollment, droplist, waitlist, autoEnroll, now, writer, txn, readVars>>

----------------------------------------------------------------------------
(* Specifications of the administrative drop *)

\* a student is never both enrolled in a class and on its waitlist
InitWaitlists(e) ==
    {w \in [ClassIds -> SeqsUpTo(Students, Cardinality(Students))] :
        \A c \in ClassIds :
            /\ IsInjective(w[c])
            /\ \A k \in 1 .. Len(w[c]) : <<c, w[c][k]>> \notin e}

\* class 1 has one student enrolled, class 2 has two
InitEnrollment == {<<1, 1>>, <<2, 1>>, <<2, 2>>}

InitDrop ==
    /\ enrollment = InitEnrollment
    /\ droplist = <<>>
    /\ waitlist \in InitWaitlists(enrollment)
    /\ autoEnroll \in BOOLEAN
    /\ now = 1
    /\ writer = 0
    /\ pc = [r \in Requests |-> "idle"]
    /\ call = [r \in Requests |-> NoCall]
    /\ txn = [r \in Requests |-> NoTxn]
    /\ rosterClass = {}
    /\ rosterEnrollment = {}
    /\ rosterDroplist = {}
    /\ waitlisted = {}
    /\ redis = <<>>
    /\ rd = NoRead

NextDrop ==
    \E r \in Requests :
        \/ \E c \in PathClassIds, s \in Students, i \in Instructors : Delete(r, c, s, i)
        \/ Insert(r)
        \/ Commit(r)
        \/ Trigger(r)

NextFault ==
    \E r \in Requests, kind \in ErrorKinds :
        \/ DeleteRaises(r, kind)
        \/ InsertRaises(r, kind)
        \/ CommitRaises(r, kind)
        \/ TriggerRaises(r, kind)

\* the drop with a datastore that raises nothing
Spec == InitDrop /\ [][NextDrop]_vars

\* the drop with a datastore that may raise at every step
SpecFault == InitDrop /\ [][NextDrop \/ NextFault]_vars

----------------------------------------------------------------------------
(* Properties of drop_class *)

Pair(r) == <<call[r].args.class_id, call[r].args.student_id>>

\* the droplist rows of a pair
RowsOf(rows, pair) ==
    {k \in DOMAIN rows : rows[k].class_id = pair[1] /\ rows[k].student_id = pair[2]}

\* the enrollment row exists and the caller teaches the class
Owned(args) ==
    /\ <<args.class_id, args.student_id>> \in enrollment
    /\ args.class_id \in ClassIds
    /\ ClassInstructor[args.class_id] = args.instructor_id

C1_Step(r) ==
    /\ (pc[r] = "idle" /\ pc'[r] # "idle" /\ Owned(call'[r].args))
          => /\ pc'[r] = "deleted"
             /\ enrollment' = enrollment
             /\ droplist' = droplist
    /\ (pc[r] = "deleted" /\ pc'[r] # "deleted")
          => /\ pc'[r] = "inserted"
             /\ enrollment' = enrollment
             /\ droplist' = droplist
    /\ (pc[r] = "inserted" /\ pc'[r] # "inserted")
          => /\ pc'[r] = "committed"
             /\ Pair(r) \in enrollment
             /\ enrollment' = enrollment \ {Pair(r)}
             /\ Len(droplist') = Len(droplist) + 1
             /\ SubSeq(droplist', 1, Len(droplist)) = droplist
             /\ LET row == droplist'[Len(droplist')]
                IN /\ row.class_id = call[r].args.class_id
                   /\ row.student_id = call[r].args.student_id
                   /\ row.drop_date \in 1 .. now
                   /\ row.administrative = TRUE
    /\ (pc[r] = "committed" /\ pc'[r] # "committed")
          => /\ pc'[r] = "done"
             /\ call'[r].response = [status |-> 200,
                                     detail |-> <<"Item deleted successfully">>]
             /\ droplist' = droplist
             /\ Pair(r) \notin enrollment'

\* C1: with a datastore that raises nothing, a drop_class call on an existing
\* enrollment row of a class the caller teaches removes that row and appends
\* exactly one droplist row (class_id, student_id, drop timestamp,
\* administrative = true), both in the one commit and nothing before it, and
\* answers 200 with detail "Item deleted successfully".
C1_DropSucceeds == [][\A r \in Requests : C1_Step(r)]_vars

C1_Witness ==
    \E r \in Requests :
        /\ pc[r] = "done"
        /\ call[r].rowcount = 1
        /\ call[r].response.status = 200
        /\ Pair(r) \notin enrollment
        /\ RowsOf(droplist, Pair(r)) # {}

\* C2: a drop_class call whose conditional delete matches zero rows (no
\* enrollment row for the pair, the caller is not the class's instructor, or
\* the class does not exist) answers 404 and leaves the enrollment table, the
\* droplist table and the waitlist as they were, without invoking the
\* auto-enrollment trigger.
C2_NotFoundMutatesNothing ==
    [][\A r \in Requests :
          (pc[r] = "idle" /\ pc'[r] # "idle" /\ call'[r].raised = <<>>
             /\ ~Owned(call'[r].args))
          => /\ pc'[r] = "done"
             /\ call'[r].response = [status |-> 404, detail |-> <<"Record Not Found">>]
             /\ call'[r].trigger = <<>>
             /\ enrollment' = enrollment
             /\ droplist' = droplist
             /\ waitlist' = waitlist
             /\ txn'[r] = NoTxn]_vars

\* a caller who does not teach the class asks to drop an enrolled student
C2_Witness ==
    \E r \in Requests :
        /\ pc[r] = "done"
        /\ call[r].response.status = 404
        /\ Pair(r) \in enrollment
        /\ ClassInstructor[call[r].args.class_id] # call[r].args.instructor_id

\* C3: of the drop_class requests for one (class_id, student_id) pair, in any
\* interleaving, at most one deletes the row and succeeds; every other one
\* sees zero rows deleted and answers 404; the droplist gains at most one row
\* for the pair.
C3_AtMostOneDropPerPair ==
    /\ \A r1, r2 \in Requests :
          (r1 # r2 /\ pc[r1] # "idle" /\ pc[r2] # "idle" /\ Pair(r1) = Pair(r2))
          => /\ ~(call[r1].rowcount > 0 /\ call[r2].rowcount > 0)
             /\ ~(call[r1].response.status = 200 /\ call[r2].response.status = 200)
             /\ (call[r1].response.status = 200 /\ pc[r2] = "done")
                   => (call[r2].response.status = 404 /\ call[r2].rowcount = 0)
    /\ \A pair \in PathClassIds \X Students : Cardinality(RowsOf(droplist, pair)) <= 1

\* the loser started before the winner had answered
C3_Witness ==
    \E r1, r2 \in Requests :
        /\ r1 # r2
        /\ pc[r1] = "done" /\ pc[r2] = "done"
        /\ call[r1].args = call[r2].args
        /\ call[r1].response.status = 200
        /\ call[r2].response.status = 404
        /\ r1 \notin call[r2].after
        /\ r2 \notin call[r1].after

\* C4: whenever drop_class answers 409, the enrollment row the call deleted
\* is present again and the droplist has no row of the call.
C4_ConflictLeavesNoPartialState ==
    [][\A r \in Requests :
          (pc[r] # "done" /\ pc'[r] = "done" /\ call'[r].response.status = 409)
          => /\ txn[r].deleted \subseteq enrollment'
             /\ \A k \in DOMAIN txn[r].inserted :
                   txn[r].inserted[k] \notin SeqToSet(droplist')]_vars

\* C5: when the policy flag is enabled and a drop_class call has committed,
\* its post-commit step enrolls exactly one student if the class's waitlist is
\* non-empty, the lowest-ranked one, and removes that student from the
\* waitlist; with an empty waitlist no enrollment row appears; either way the
\* call answers 200.
C5_PromotesLowestRanked ==
    [][\A r \in Requests :
          (pc[r] = "committed" /\ pc'[r] = "done" /\ autoEnroll)
          => LET c == call[r].args.class_id
             IN /\ call'[r].response.status = 200
                /\ IF waitlist[c] # <<>>
                   THEN /\ enrollment' \ enrollment = {<<c, waitlist[c][1]>>}
                        /\ enrollment \subseteq enrollment'
                        /\ waitlist[c][1] \notin SeqToSet(waitlist'[c])
                        /\ Len(waitlist'[c]) = Len(waitlist[c]) - 1
                        /\ \A d \in ClassIds \ {c} : waitlist'[d] = waitlist[d]
                   ELSE /\ enrollment' = enrollment
                        /\ waitlist' = waitlist]_vars

\* one of two waitlisted students of a class was promoted
C5_Witness ==
    \E r \in Requests :
        /\ pc[r] = "done"
        /\ autoEnroll
        /\ call[r].response.status = 200
        /\ call[r].trigger # <<>>
        /\ \E s \in Students :
              /\ <<call[r].args.class_id, s>> \in enrollment \ InitEnrollment
              /\ waitlist[call[r].args.class_id] # <<>>

\* C6: the trigger runs only after the commit, and an exception raised by the
\* policy read or by the trigger leaves the drop in place: the enrollment row
\* stays removed and the droplist row stays recorded.
C6_TriggerFailureKeepsDrop ==
    [][\A r \in Requests :
          /\ (call'[r].trigger # <<>> => call[r].committed)
          /\ (pc[r] = "committed" /\ pc'[r] = "done" /\ call'[r].raised # <<>>)
                => /\ enrollment' = enrollment
                   /\ droplist' = droplist
                   /\ Pair(r) \notin enrollment'
                   /\ \A k \in DOMAIN txn[r].inserted :
                         txn[r].inserted[k] \in SeqToSet(droplist')]_vars

C6_Witness ==
    \E r \in Requests :
        /\ pc[r] = "done"
        /\ call[r].raised # <<>>
        /\ call[r].raised[1] = "trigger"
        /\ call[r].trigger # <<>>
        /\ Pair(r) \notin enrollment
        /\ RowsOf(droplist, Pair(r)) # {}

\* C7: a drop_class call made with the arguments of an earlier call that
\* answered 200 answers 404 and deletes nothing; the droplist keeps exactly
\* the one row of the first call.
C7_RetryIsNotFound ==
    \A r1, r2 \in Requests :
        (r1 # r2 /\ pc[r2] = "done" /\ r1 \in call[r2].after
            /\ call[r1].args = call[r2].args)
        => /\ call[r2].response.status = 404
           /\ call[r2].rowcount = 0
           /\ txn[r2] = NoTxn
           /\ Cardinality(RowsOf(droplist, Pair(r1))) = 1
           /\ Pair(r1) \notin enrollment

C7_Witness ==
    \E r1, r2 \in Requests :
        /\ r1 # r2
        /\ pc[r2] = "done"
        /\ r1 \in call[r2].after
        /\ call[r1].args = call[r2].args
        /\ call[r2].response.status = 404

\* C8, as claimed: every exception of the datastore layer raised inside
\* drop_class, of whatever kind and at whichever step, is answered 409 with
\* the error's kind and message.
C8_EveryErrorIsConflict ==
    \A r \in Requests :
        call[r].raised # <<>>
        => call[r].response = [status |-> 409, detail |-> <<call[r].raised[2], "msg">>]

\* C8, amended: every IntegrityError raised inside drop_class, at whichever
\* step (delete, insert, commit, trigger), is answered 409 with the error's
\* kind and message; an exception of another kind is not answered 409.
C8_IntegrityErrorIsConflict ==
    \A r \in Requests :
        call[r].raised # <<>>
        => IF call[r].raised[2] = "IntegrityError"
           THEN call[r].response = [status |-> 409, detail |-> <<"IntegrityError", "msg">>]
           ELSE call[r].response.status # 409

\* an IntegrityError of the commit and one of the delete, both answered 409
C8_Witness ==
    \E r1, r2 \in Requests :
        /\ call[r1].raised = <<"commit", "IntegrityError">>
        /\ call[r1].response.status = 409
        /\ call[r2].raised = <<"delete", "IntegrityError">>
        /\ call[r2].response.status = 409

----------------------------------------------------------------------------
(* The read handlers *)

\* the longest path string tried
MaxSlugLen == 5

\* the characters of a path segment: a letter, the hyphen, the separator
SlugAlphabet == {"a", "-", "_"}

Slugs == UNION {[1 .. k -> SlugAlphabet] : k \in 1 .. MaxSlugLen}

\* the terms and class codes of the Roster Store's classes
TermNames == {<<"a">>, <<"a", "-", "a">>}

ClassNames == {<<"a">>, <<"a", "-", "a">>}

ClassKeys == TermNames \X ClassNames

RECURSIVE SplitFrom(_, _, _, _)
SplitFrom(s, sep, cur, parts) ==
    IF s = <<>>
    THEN Append(parts, cur)
    ELSE IF Head(s) = sep
         THEN SplitFrom(Tail(s), sep, <<>>, Append(parts, cur))
         ELSE SplitFrom(Tail(s), sep, Append(cur, Head(s)), parts)

\* str.split(sep, 1)
RECURSIVE SplitOnceFrom(_, _, _)
SplitOnceFrom(s, sep, cur) ==
    IF s = <<>>
    THEN <<cur>>
    ELSE IF Head(s) = sep
         THEN <<cur, Tail(s)>>
         ELSE SplitOnceFrom(Tail(s), sep, Append(cur, Head(s)))

SplitOnce(s, sep) == SplitOnceFrom(s, sep, <<>>)

\* str.split(sep)
Split(s, sep) == SplitFrom(s, sep, <<>>, <<>>)

Digits == <<"0", "1", "2", "3", "4", "5", "6", "7", "8", "9">>

\* str(n), n >= 0
RECURSIVE Str(_)
Str(n) == IF n < 10 THEN <<Digits[n + 1]>> ELSE Append(Str(n \div 10), Digits[(n % 10) + 1])

\* one character as its UTF-8 byte (ASCII digits only are stored)
Byte(ch) == 47 + CHOOSE d \in 1 .. 10 : Digits[d] = ch

\* the bytes of a member of a sorted set
Encode(str) == [k \in DOMAIN str |-> Byte(str[k])]

\* x.decode("utf-8")
Decode(bytes) == [k \in DOMAIN bytes |-> Digits[bytes[k] - 47]]

\* the elements of a finite set of numbers, ascending
RECURSIVE Ascending(_)
Ascending(S) ==
    IF S = {}
    THEN <<>>
    ELSE LET m == CHOOSE x \in S : \A y \in S : x <= y
         IN <<m>> \o Ascending(S \ {m})

\* set_name = f'{_class}-{term}'
SetName(_class, term) == _class \o <<"-">> \o term

\* KeyConditionExpression: Key("term").eq(term) & Key("class").eq(_class)
KeyCondition(item, term, _class) == item.term = term /\ item.class = _class

\* FilterExpression: Attr("instructor_id").eq(user.cwid)
FilterExpression(item, cwid) == item.instructor_id = cwid

\* db.query on the class table
QueryClassInformation(term, _class, cwid) ==
    {item \in rosterClass : KeyCondition(item, term, _class) /\ FilterExpression(item, cwid)}

\* db.query on an index keyed by (term, class), as the list of student cwids
QueryStudents(table, term, _class) ==
    Ascending({item.student_cwid : item \in {x \in table : KeyCondition(x, term, _class)}})

\* db_redis.zrange(set_name, 0, 15)
ZRange(set_name, lo, hi) ==
    IF set_name \in DOMAIN redis
    THEN SubSeq(redis[set_name], lo + 1, IF hi + 1 < Len(redis[set_name])
                                         THEN hi + 1 ELSE Len(redis[set_name]))
    ELSE <<>>

BadRequest(endpoint, slug, cwid) ==
    [endpoint |-> endpoint, slug |-> slug, cwid |-> cwid, status |-> 400,
     data |-> <<>>, queries |-> <<>>]

ClassNotFound(endpoint, slug, cwid) ==
    [endpoint |-> endpoint, slug |-> slug, cwid |-> cwid, status |-> 404,
     data |-> <<>>, queries |-> <<"class">>]

Ok(endpoint, slug, cwid, store, data) ==
    [endpoint |-> endpoint, slug |-> slug, cwid |-> cwid, status |-> 200,
     data |-> data, queries |-> <<"class", store>>]

\* GET /classes/{class_term_slug}/students
get_current_enrollment(class_term_slug, cwid) ==
    LET args == Split(class_term_slug, "_")
    IN IF Len(args) # 2
       THEN BadRequest("get_current_enrollment", class_term_slug, cwid)
       ELSE IF QueryClassInformation(args[1], args[2], cwid) = {}
            THEN ClassNotFound("get_current_enrollment", class_term_slug, cwid)
            ELSE LET class_enrollment == QueryStudents(rosterEnrollment, args[1], args[2])
                 IN Ok("get_current_enrollment", class_term_slug, cwid, "enrollment",
                       [k \in DOMAIN class_enrollment |-> Str(class_enrollment[k])])

\* GET /classes/{class_term_slug}/waitlist/
get_waitlist(class_term_slug, cwid) ==
    LET args == Split(class_term_slug, "_")
    IN IF Len(args) # 2
       THEN BadRequest("get_waitlist", class_term_slug, cwid)
       ELSE IF QueryClassInformation(args[1], args[2], cwid) = {}
            THEN ClassNotFound("get_waitlist", class_term_slug, cwid)
            ELSE LET waitlist_information == ZRange(SetName(args[2], args[1]), 0, 15)
                 IN Ok("get_waitlist", class_term_slug, cwid, "redis",
                       [k \in DOMAIN waitlist_information |->
                           Decode(waitlist_information[k])])

\* GET /classes/{class_term_slug}/droplist/
get_droplist(class_term_slug, cwid) ==
    LET args == Split(class_term_slug, "_")
    IN IF Len(args) # 2
       THEN BadRequest("get_droplist", class_term_slug, cwid)
       ELSE IF QueryClassInformation(args[1], args[2], cwid) = {}
            THEN ClassNotFound("get_droplist", class_term_slug, cwid)
            ELSE LET class_dropped_students == QueryStudents(rosterDroplist, args[1], args[2])
                 IN Ok("get_droplist", class_term_slug, cwid, "droplist",
                       [k \in DOMAIN class_dropped_students |->
                           Str(class_dropped_students[k])])

\* the handlers change no store, so one read request per behaviour is modelled
GetCurrentEnrollment(slug, cwid) ==
    /\ rd = NoRead
    /\ rd' = get_current_enrollment(slug, cwid)
    /\ UNCHANGED <<dropVars, rosterClass, rosterEnrollment, rosterDroplist, waitlisted, redis>>

GetWaitlist(slug, cwid) ==
    /\ rd = NoRead
    /\ rd' = get_waitlist(slug, cwid)
    /\ UNCHANGED <<dropVars, rosterClass, rosterEnrollment, rosterDroplist, waitlisted, redis>>

GetDroplist(slug, cwid) ==
    /\ rd = NoRead
    /\ rd' = get_droplist(slug, cwid)
    /\ UNCHANGED <<dropVars, rosterClass, rosterEnrollment, rosterDroplist, waitlisted, redis>>

----------------------------------------------------------------------------
(* Specification of the read handlers *)

\* the classes of the Roster Store, numbered
ClassNumber(key) ==
    (IF key[1] = <<"a">> THEN 0 ELSE 2) + (IF key[2] = <<"a">> THEN 1 ELSE 2)

\* the waitlist writer: each waitlisted student is a member of the sorted set
\* named after its class and term
RedisOf(entries) ==
    [name \in {SetName(w.class, w.term) : w \in entries} |->
        LET members == Ascending({w.student_cwid :
                           w \in {x \in entries : SetName(x.class, x.term) = name}})
        IN [k \in DOMAIN members |-> Encode(Str(members[k]))]]

\* at most two of the class keys name a class of the store (0: no class)
InitOwners ==
    {owner \in [ClassKeys -> {0} \cup Instructors] :
        Cardinality({key \in ClassKeys : owner[key] # 0}) <= 2}

\* every class of the store has one enrolled, one dropped and one waitlisted
\* student of its own
InitRead ==
    /\ enrollment = {}
    /\ droplist = <<>>
    /\ waitlist = [c \in ClassIds |-> <<>>]
    /\ autoEnroll = FALSE
    /\ now = 1
    /\ writer = 0
    /\ pc = [r \in Requests |-> "idle"]
    /\ call = [r \in Requests |-> NoCall]
    /\ txn = [r \in Requests |-> NoTxn]
    /\ \E owner \in InitOwners :
          LET keys == {key \in ClassKeys : owner[key] # 0}
          IN /\ rosterClass = {[term |-> key[1], class |-> key[2],
                                instructor_id |-> owner[key]] : key \in keys}
             /\ rosterEnrollment = {[term |-> key[1], class |-> key[2],
                                     student_cwid |-> 10 * ClassNumber(key) + 1] : key \in keys}
             /\ rosterDroplist = {[term |-> key[1], class |-> key[2],
                                   student_cwid |-> 10 * ClassNumber(key) + 2] : key \in keys}
             /\ waitlisted = {[term |-> key[1], class |-> key[2],
                               student_cwid |-> 10 * ClassNumber(key) + 3] : key \in keys}
    /\ redis = RedisOf(waitlisted)
    /\ rd = NoRead

NextRead ==
    \E slug \in Slugs, cwid \in Instructors :
        \/ GetCurrentEnrollment(slug, cwid)
        \/ GetWaitlist(slug, cwid)
        \/ GetDroplist(slug, cwid)

SpecRead == InitRead /\ [][NextRead]_vars

----------------------------------------------------------------------------
(* Properties of the read handlers *)

Underscores(slug) == {k \in DOMAIN slug : slug[k] = "_"}

\* C9: a path string that does not hold exactly one "_" is answered 400 by
\* each of the three read endpoints, before any store is queried.
C9_MalformedKeyIsBadRequest ==
    (rd # NoRead /\ Cardinality(Underscores(rd.slug)) # 1)
    => (rd.status = 400 /\ rd.queries = <<>> /\ rd.data = <<>>)

C9_Witness ==
    /\ rd # NoRead
    /\ rd.endpoint = "get_waitlist"
    /\ Cardinality(Underscores(rd.slug)) = 2
    /\ rd.status = 400

\* the (term, class) a well-formed key names
KeyOf(slug) ==
    LET p == CHOOSE k \in DOMAIN slug : slug[k] = "_"
    IN <<SubSeq(slug, 1, p - 1), SubSeq(slug, p + 1, Len(slug))>>

\* the students recorded for a class in the store an endpoint reads
Recorded(endpoint, key) ==
    LET table == IF endpoint = "get_current_enrollment" THEN rosterEnrollment
                 ELSE IF endpoint = "get_droplist" THEN rosterDroplist
                 ELSE waitlisted
    IN {Str(x.student_cwid) : x \in {y \in table : y.term = key[1] /\ y.class = key[2]}}

\* C10: for a well-formed key, an endpoint answers 404 without student data
\* when the Roster Store has no class record of the key taught by the caller,
\* and otherwise answers 200 with entries recorded for that same class only.
C10_OnlyOwnClassEntries ==
    (rd # NoRead /\ Cardinality(Underscores(rd.slug)) = 1)
    => LET key == KeyOf(rd.slug)
       IN IF \A item \in rosterClass :
                ~(item.term = key[1] /\ item.class = key[2]
                    /\ item.instructor_id = rd.cwid)
          THEN rd.status = 404 /\ rd.data = <<>>
          ELSE /\ rd.status = 200
               /\ \A k \in DOMAIN rd.data : rd.data[k] \in Recorded(rd.endpoint, key)

====
